---- MODULE Spec2Model ----
(***************************************************************************)
(* MastersYuMiConnector (scripts/masters_yumi_connector.py): one relay     *)
(* instance.  rospy runs the pose subscriber callback, the clutch          *)
(* subscriber callback and the reset service handler on separate threads,  *)
(* so each of them is a process with its own position; a step is one       *)
(* source statement.  sched is the delivery of messages explored: with     *)
(* sched.serial the callbacks are delivered one at a time (a callback      *)
(* starts only when no other one is running), otherwise they overlap       *)
(* freely and sched.maxEvents messages are delivered in all.  With         *)
(* sched.live pose messages keep arriving and are not counted.             *)
(***************************************************************************)
EXTENDS Integers, Sequences, FiniteSets, TLC

VARIABLES
    clutch_state, clutch_i,
    T_mz_cu_t, T_w_cu_t, T_mzr_mz, T_mc_mcr, T_w_mc, T_w_cd_t1,
    T_w_yi, T_yi_yir, T_ycr_yc,
    has_zeroed, cb_prop_q, pub,
    pcPose, T_mz_mc, T_yir_ycr,
    pcClutch, clutch_down,
    pcReset, yumi_pose,
    nPose, nClutch, nReset,
    sched,
    (* history, read by the properties only *)
    everZeroed, dropped, cycle, g_down, g_reset, g_hist

vars == <<clutch_state, clutch_i, T_mz_cu_t, T_w_cu_t, T_mzr_mz, T_mc_mcr,
          T_w_mc, T_w_cd_t1, T_w_yi, T_yi_yir, T_ycr_yc, has_zeroed,
          cb_prop_q, pub, pcPose, T_mz_mc, T_yir_ycr, pcClutch, clutch_down,
          pcReset, yumi_pose, nPose, nClutch, nReset, sched,
          everZeroed, dropped, cycle, g_down, g_reset, g_hist>>

(* ---------------- bounds on the number of delivered messages ----------- *)
MaxPoseMsgs == 5
MaxClutchMsgs == 2
MaxResets == 1
MaxEvents == 7
RaceMaxEvents == 8
SeqMaxPoseMsgs == 8
SeqMaxClutchMsgs == 3
SeqMaxResets == 2
LiveMaxClutchMsgs == 2
LiveMaxResets == 2

(* ---------------- rigid transforms (core.RigidTransform) --------------- *)
(* A transform is a rotation matrix, a translation and a pair of frame     *)
(* names.  None is Python's None; an operation on None, or a product whose *)
(* inner frame names differ, raises: the result is an error value and the  *)
(* callback that evaluated it is abandoned.                                *)
None == [none |-> TRUE]
AttributeError == [error |-> "AttributeError"]
ValueError == [error |-> "ValueError"]

IsT(x) == "rotation" \in DOMAIN x
IsError(x) == "error" \in DOMAIN x

I3 == <<<<1, 0, 0>>, <<0, 1, 0>>, <<0, 0, 1>>>>
Zero3 == <<0, 0, 0>>

Dot3(a, b) == a[1] * b[1] + a[2] * b[2] + a[3] * b[3]
Col(M, j) == <<M[1][j], M[2][j], M[3][j]>>
MatVec(M, v) == <<Dot3(M[1], v), Dot3(M[2], v), Dot3(M[3], v)>>
MatMul(A, B) ==
    << <<Dot3(A[1], Col(B, 1)), Dot3(A[1], Col(B, 2)), Dot3(A[1], Col(B, 3))>>,
       <<Dot3(A[2], Col(B, 1)), Dot3(A[2], Col(B, 2)), Dot3(A[2], Col(B, 3))>>,
       <<Dot3(A[3], Col(B, 1)), Dot3(A[3], Col(B, 2)), Dot3(A[3], Col(B, 3))>> >>
Transpose(M) == <<Col(M, 1), Col(M, 2), Col(M, 3)>>
VecAdd(a, b) == <<a[1] + b[1], a[2] + b[2], a[3] + b[3]>>
VecNeg(a) == <<0 - a[1], 0 - a[2], 0 - a[3]>>

RigidTransform(rotation, translation, from_frame, to_frame) ==
    [rotation |-> rotation, translation |-> translation,
     from_frame |-> from_frame, to_frame |-> to_frame]

(* A * B: B's to_frame must be A's from_frame.  Mul and Inverse bind their *)
(* operands first, so that an operand that is itself a product is          *)
(* evaluated once.                                                         *)
MulValues(A, B) ==
    IF IsError(A) THEN A
    ELSE IF IsError(B) THEN B
    ELSE IF ~IsT(A) \/ ~IsT(B) THEN AttributeError
    ELSE IF B.to_frame # A.from_frame THEN ValueError
    ELSE RigidTransform(MatMul(A.rotation, B.rotation),
                        VecAdd(MatVec(A.rotation, B.translation), A.translation),
                        B.from_frame, A.to_frame)
Mul(A, B) == CHOOSE T \in {MulValues(a, b) : a \in {A}, b \in {B}} : TRUE

InverseValue(A) ==
    IF IsError(A) THEN A
    ELSE IF ~IsT(A) THEN AttributeError
    ELSE RigidTransform(Transpose(A.rotation),
                        VecNeg(MatVec(Transpose(A.rotation), A.translation)),
                        A.to_frame, A.from_frame)
Inverse(A) == CHOOSE T \in {InverseValue(a) : a \in {A}} : TRUE

AsFrames(A, from_frame, to_frame) ==
    IF IsError(A) THEN A
    ELSE IF ~IsT(A) THEN AttributeError
    ELSE RigidTransform(A.rotation, A.translation, from_frame, to_frame)

(* RigidTransform(rotation=X.rotation, from_frame=.., to_frame=..) *)
RotationOnly(A, from_frame, to_frame) ==
    IF IsError(A) THEN A
    ELSE IF ~IsT(A) THEN AttributeError
    ELSE RigidTransform(A.rotation, Zero3, from_frame, to_frame)

(* ---------------- ROS poses (yumi_teleop conversions) ------------------ *)
(* A geometry_msgs Pose carries a position and an orientation and no frame *)
(* names; the conversions attach and strip the names.                      *)
Pose(position, orientation) == [position |-> position, orientation |-> orientation]
ros_pose_to_T(ros_pose, from_frame, to_frame) ==
    RigidTransform(ros_pose.orientation, ros_pose.position, from_frame, to_frame)
T_to_ros_pose(T) == Pose(T.translation, T.rotation)

(* ---------------- module constants ------------------------------------- *)
T_MC_YCR ==
    RigidTransform(<<<<0, -1, 0>>, <<1, 0, 0>>, <<0, 0, 1>>>>, Zero3,
                   "yumi_current_ref", "masters_current")
T_YIR_MI ==
    RigidTransform(<<<<0, 1, 0>>, <<-1, 0, 0>>, <<0, 0, 1>>>>, Zero3,
                   "masters_init", "yumi_init_ref")

(* ---------------- inputs ----------------------------------------------- *)
Rz90 == <<<<0, -1, 0>>, <<1, 0, 0>>, <<0, 0, 1>>>>
Rx90 == <<<<1, 0, 0>>, <<0, 0, -1>>, <<0, 1, 0>>>>
Ry90 == <<<<0, 0, 1>>, <<0, 1, 0>>, <<-1, 0, 0>>>>
MasterPoses == {Pose(<<1, 0, 0>>, Rz90), Pose(<<0, 2, 0>>, Rx90)}
YumiPoses == {Pose(Zero3, I3), Pose(<<0, 0, 1>>, Ry90)}

(* ---------------- the relay -------------------------------------------- *)
NoBaseline == <<>>
RelayInit ==
    /\ clutch_state = FALSE
    /\ clutch_i = 0
    /\ T_mz_cu_t = None /\ T_w_cu_t = None /\ T_mzr_mz = None
    /\ T_mc_mcr = None /\ T_w_mc = None /\ T_w_cd_t1 = None
    /\ T_w_yi = None /\ T_yi_yir = None /\ T_ycr_yc = None
    /\ cb_prop_q = <<>>
    /\ pub = None
    /\ has_zeroed = FALSE
    /\ pcPose = "idle" /\ T_mz_mc = None /\ T_yir_ycr = None
    /\ pcClutch = "idle" /\ clutch_down = FALSE
    /\ pcReset = "idle" /\ yumi_pose = None
    /\ nPose = 0 /\ nClutch = 0 /\ nReset = 0
    /\ everZeroed = FALSE /\ dropped = FALSE
    /\ cycle = "none" /\ g_down = NoBaseline
    /\ g_reset = [Y |-> None, M |-> None, i |-> 0, run |-> 0,
                  poseSince |-> FALSE, clean |-> FALSE]
    /\ g_hist = [sample |-> None, epoch |-> -1, labels |-> {}, resetFailed |-> FALSE]

Init == RelayInit /\ sched = [serial |-> FALSE, live |-> FALSE, maxEvents |-> MaxEvents]
RaceInit == RelayInit /\ sched = [serial |-> FALSE, live |-> FALSE, maxEvents |-> RaceMaxEvents]
SeqInit == RelayInit /\ sched = [serial |-> TRUE, live |-> FALSE, maxEvents |-> 0]
LiveInit == RelayInit /\ sched = [serial |-> TRUE, live |-> TRUE, maxEvents |-> 0]

AllIdle == pcPose = "idle" /\ pcClutch = "idle" /\ pcReset = "idle"
MayStart ==
    IF sched.serial THEN AllIdle ELSE nPose + nClutch + nReset < sched.maxEvents
PoseBound == IF sched.serial THEN SeqMaxPoseMsgs ELSE MaxPoseMsgs
ClutchBound ==
    IF sched.live THEN LiveMaxClutchMsgs
    ELSE IF sched.serial THEN SeqMaxClutchMsgs ELSE MaxClutchMsgs
ResetBound ==
    IF sched.live THEN LiveMaxResets
    ELSE IF sched.serial THEN SeqMaxResets ELSE MaxResets

baseline == <<T_mz_cu_t, T_w_cu_t, T_mzr_mz, T_mc_mcr, T_w_yi, T_yi_yir, T_ycr_yc>>
clutchVars == <<clutch_state, clutch_i, T_w_cd_t1>>
poseLocals == <<pcPose, T_mz_mc, T_yir_ycr>>
clutchLocals == <<pcClutch, clutch_down>>
resetLocals == <<pcReset, yumi_pose>>
counters == <<nPose, nClutch, nReset, sched>>

(* History variables.                                                      *)
(*   everZeroed  has_zeroed has been True at some time                     *)
(*   dropped     the last pose callback that got past both gates raised    *)
(*   cycle       "down" after a clutch press on a zeroed, disengaged relay *)
(*               with no reset pending; "up"/"up_still" after the release  *)
(*               that follows it (still: the master pose at the release is *)
(*               the one snapshotted at the press); "fed" while the next   *)
(*               pose callback runs, if a pose was published before and    *)
(*               its sample is the master pose the release captured;       *)
(*               "none" otherwise                                          *)
(*   g_down      the baseline when that press was received (NoBaseline:    *)
(*               no such press)                                            *)
(*   g_reset     the latest reset invocation: its robot pose Y, the master *)
(*               pose M and epoch i it read, how many resets with the same *)
(*               Y ran in a row (run), whether a pose sample arrived since *)
(*               (poseSince) and whether no clutch event was processed     *)
(*               since (clean)                                             *)
(*   g_hist      sample: the last pose message delivered; epoch: _clutch_i *)
(*               when the running clutch callback started (-1: none is     *)
(*               running); labels: the <<clutch-down, clutch-up>> frame    *)
(*               names of the presses processed so far; resetFailed: a     *)
(*               reset has raised at line 89                               *)
SameValue(A, B) ==
    IsT(A) /\ IsT(B) /\ A.rotation = B.rotation /\ A.translation = B.translation
NoResetPending == cb_prop_q = <<>> /\ pcReset = "idle"

(* 'clutch_{0}_{1}'.format(state, self._clutch_i) *)
ClutchFrame(state, i) == "clutch_" \o state \o "_" \o ToString(i)
_clutch(state) == ClutchFrame(state, clutch_i)

(* setattr(self, key, val) for one key of a queued dict *)
Attr(rec, key, old) == IF key \in DOMAIN rec THEN rec[key] ELSE old

(* ---- _position_cartesian_current_callback ----------------------------- *)
Compose126(mz_cu, w_cu, w_mc) == Mul(Mul(mz_cu, Inverse(w_cu)), w_mc)
Compose127(mzr_mz, mz_mc, mc_mcr) ==
    Mul(Mul(T_YIR_MI,
            AsFrames(Mul(Mul(mzr_mz, mz_mc), mc_mcr), "masters_current", "masters_init")),
        T_MC_YCR)
Compose131(w_yi, yi_yir, yir_ycr, ycr_yc) == Mul(Mul(Mul(w_yi, yi_yir), yir_ycr), ycr_yc)

(* lines 126-131 for baseline b and master pose w_mc *)
Forward(b, w_mc) ==
    Compose131(b[5], b[6], Compose127(b[3], Compose126(b[1], b[2], w_mc), b[4]), b[7])

(* line 119: the sample is stored before either gate is looked at *)
StoreSample_AfterGates(gated, old, new) == IF gated THEN old ELSE new
StoreSample(gated, old, new) == new

(* line 119 *)
PoseRecv ==
    /\ pcPose = "idle" /\ MayStart /\ (sched.live \/ nPose < PoseBound)
    /\ \E ros_pose \in MasterPoses :
          /\ T_w_mc' = StoreSample(~has_zeroed \/ clutch_state, T_w_mc,
                                   ros_pose_to_T(ros_pose, "masters_current", "world"))
          /\ g_hist' = [g_hist EXCEPT !.sample = ros_pose]
    /\ pcPose' = "l120"
    /\ nPose' = IF sched.live THEN nPose ELSE nPose + 1
    /\ g_reset' = [g_reset EXCEPT !.poseSince = TRUE]
    /\ cycle' = IF cycle \in {"up", "up_still", "fed"}
                THEN (IF cycle # "fed" /\ pcClutch = "idle" /\ pub # None
                         /\ SameValue(T_w_mc', T_w_cu_t)
                      THEN "fed" ELSE "none")
                ELSE cycle
    /\ g_down' = IF cycle' = "none" THEN NoBaseline ELSE g_down
    /\ UNCHANGED <<clutchVars, baseline, has_zeroed, cb_prop_q, pub, T_mz_mc, T_yir_ycr,
                   clutchLocals, resetLocals, nClutch, nReset, sched,
                   everZeroed, dropped>>

(* _update_cb_objs: one queued dict, if any, is applied *)
QueueHead == IF Len(cb_prop_q) > 0 THEN Head(cb_prop_q) ELSE <<>>
QueueRest == IF Len(cb_prop_q) > 0 THEN Tail(cb_prop_q) ELSE cb_prop_q

(* the gate of lines 121-122 *)
Zeroed_NoGate(hz) == TRUE
Zeroed(hz) == hz

(* lines 120-122 *)
PoseUpdate ==
    /\ pcPose = "l120"
    /\ UNCHANGED g_hist
    /\ cb_prop_q' = QueueRest
    /\ has_zeroed' = Attr(QueueHead, "has_zeroed", has_zeroed)
    /\ T_w_cu_t' = Attr(QueueHead, "T_w_cu_t", T_w_cu_t)
    /\ T_mzr_mz' = Attr(QueueHead, "T_mzr_mz", T_mzr_mz)
    /\ T_mc_mcr' = Attr(QueueHead, "T_mc_mcr", T_mc_mcr)
    /\ T_w_yi' = Attr(QueueHead, "T_w_yi", T_w_yi)
    /\ T_yi_yir' = Attr(QueueHead, "T_yi_yir", T_yi_yir)
    /\ T_ycr_yc' = Attr(QueueHead, "T_ycr_yc", T_ycr_yc)
    /\ pcPose' = IF Zeroed(has_zeroed') THEN "l125" ELSE "idle"
    /\ everZeroed' = (everZeroed \/ has_zeroed')
    /\ UNCHANGED <<clutchVars, T_mz_cu_t, T_w_mc, pub, T_mz_mc, T_yir_ycr,
                   clutchLocals, resetLocals, counters, dropped, cycle, g_down, g_reset>>

(* the gate of line 125 *)
NotClutched(cs) == ~cs

(* line 125 *)
PoseGate ==
    /\ pcPose = "l125"
    /\ UNCHANGED g_hist
    /\ pcPose' = IF NotClutched(clutch_state) THEN "l126" ELSE "idle"
    /\ UNCHANGED <<clutchVars, baseline, T_w_mc, has_zeroed, cb_prop_q, pub,
                   T_mz_mc, T_yir_ycr, clutchLocals, resetLocals, counters,
                   everZeroed, dropped, cycle, g_down, g_reset>>

(* line 126 *)
Pose126 ==
    /\ pcPose = "l126"
    /\ UNCHANGED g_hist
    /\ LET T == Compose126(T_mz_cu_t, T_w_cu_t, T_w_mc)
       IN  IF IsError(T)
           THEN pcPose' = "idle" /\ T_mz_mc' = None /\ dropped' = TRUE
           ELSE pcPose' = "l127" /\ T_mz_mc' = T /\ UNCHANGED dropped
    /\ UNCHANGED <<clutchVars, baseline, T_w_mc, has_zeroed, cb_prop_q, pub,
                   T_yir_ycr, clutchLocals, resetLocals, counters,
                   everZeroed, cycle, g_down, g_reset>>

(* lines 127-130 *)
Pose127 ==
    /\ pcPose = "l127"
    /\ UNCHANGED g_hist
    /\ LET T == Compose127(T_mzr_mz, T_mz_mc, T_mc_mcr)
       IN  IF IsError(T)
           THEN pcPose' = "idle" /\ T_yir_ycr' = None /\ dropped' = TRUE
           ELSE pcPose' = "l131" /\ T_yir_ycr' = T /\ UNCHANGED dropped
    /\ T_mz_mc' = None
    /\ UNCHANGED <<clutchVars, baseline, T_w_mc, has_zeroed, cb_prop_q, pub,
                   clutchLocals, resetLocals, counters,
                   everZeroed, cycle, g_down, g_reset>>

(* lines 131-133 *)
Pose131 ==
    /\ pcPose = "l131"
    /\ UNCHANGED g_hist
    /\ LET T == Compose131(T_w_yi, T_yi_yir, T_yir_ycr, T_ycr_yc)
       IN  IF IsError(T)
           THEN dropped' = TRUE /\ UNCHANGED <<pub, cycle, g_down>>
           ELSE /\ pub' = T_to_ros_pose(T)
                /\ dropped' = FALSE
                /\ cycle' = IF cycle \in {"up", "up_still", "fed"} THEN "none" ELSE cycle
                /\ g_down' = IF cycle \in {"up", "up_still", "fed"} THEN NoBaseline ELSE g_down
    /\ pcPose' = "idle"
    /\ T_yir_ycr' = None
    /\ UNCHANGED <<clutchVars, baseline, T_w_mc, has_zeroed, cb_prop_q,
                   T_mz_mc, clutchLocals, resetLocals, counters, everZeroed, g_reset>>

(* ---- _clutch_callback -------------------------------------------------- *)
(* lines 138-143: where the callback goes on *)
ClutchBranch_ReleaseCounts(hz, data) ==
    IF ~hz THEN "idle" ELSE "l144"
ClutchBranch_NoGate(hz, data) ==
    IF data THEN "l144" ELSE "l151"
ClutchBranch(hz, data) ==
    IF ~hz THEN "idle" ELSE IF data THEN "l144" ELSE "l151"

(* lines 138-143 *)
ClutchEnter ==
    /\ pcClutch = "idle" /\ MayStart /\ nClutch < ClutchBound
    /\ nClutch' = nClutch + 1
    /\ \E data \in BOOLEAN :
          /\ clutch_down' = data
          /\ pcClutch' = ClutchBranch(has_zeroed, data)
          /\ g_hist' = [g_hist EXCEPT
                           !.epoch = IF pcClutch' = "idle" THEN -1 ELSE clutch_i]
          /\ IF pcClutch' = "idle"
             THEN UNCHANGED <<cycle, g_down, g_reset>>
             ELSE /\ g_reset' = [g_reset EXCEPT !.clean = FALSE]
                  /\ cycle' = IF ~data /\ cycle = "down" THEN "down" ELSE "none"
                  /\ g_down' = IF ~data /\ cycle = "down" THEN g_down
                               ELSE IF data /\ ~clutch_state /\ NoResetPending
                               THEN baseline
                               ELSE NoBaseline
    /\ UNCHANGED <<clutchVars, baseline, T_w_mc, has_zeroed, cb_prop_q, pub,
                   poseLocals, resetLocals, nPose, nReset, sched, everZeroed, dropped>>

(* line 144 *)
NextEpoch_Same(i) == i
NextEpoch(i) == i + 1

Clutch144 ==
    /\ pcClutch = "l144"
    /\ UNCHANGED g_hist
    /\ clutch_i' = NextEpoch(clutch_i)
    /\ pcClutch' = "l147"
    /\ UNCHANGED <<clutch_state, T_w_cd_t1, baseline, T_w_mc, has_zeroed, cb_prop_q,
                   pub, poseLocals, clutch_down, resetLocals, counters,
                   everZeroed, dropped, cycle, g_down, g_reset>>

(* line 147 *)
Clutch147 ==
    /\ pcClutch = "l147"
    /\ LET T == AsFrames(T_w_mc, _clutch("down"), "world")
       IN  IF IsError(T)
           THEN /\ pcClutch' = "idle" /\ UNCHANGED T_w_cd_t1
                /\ g_hist' = [g_hist EXCEPT !.epoch = -1]
           ELSE /\ pcClutch' = "l157" /\ T_w_cd_t1' = T
                /\ g_hist' = [g_hist EXCEPT !.labels =
                                 @ \cup {<<_clutch("down"), _clutch("up")>>}]
    /\ UNCHANGED <<clutch_state, clutch_i, baseline, T_w_mc, has_zeroed, cb_prop_q,
                   pub, poseLocals, clutch_down, resetLocals, counters,
                   everZeroed, dropped, cycle, g_down, g_reset>>

(* lines 151-152 *)
Fold_NoSnapshot(mz_cu, w_cu, w_cd, up, down) ==
    AsFrames(Mul(mz_cu, Inverse(w_cu)), up, "masters_zero")
Fold_RelabelOnly(mz_cu, w_cu, w_cd, up, down) ==
    AsFrames(mz_cu, up, "masters_zero")
Fold(mz_cu, w_cu, w_cd, up, down) ==
    Mul(Mul(Mul(mz_cu, Inverse(w_cu)), w_cd), RigidTransform(I3, Zero3, up, down))

Clutch151 ==
    /\ pcClutch = "l151"
    /\ LET T == Fold(T_mz_cu_t, T_w_cu_t, T_w_cd_t1, _clutch("up"), _clutch("down"))
       IN  IF IsError(T)
           THEN /\ pcClutch' = "idle" /\ UNCHANGED T_mz_cu_t
                /\ cycle' = "none" /\ g_down' = NoBaseline
                /\ g_hist' = [g_hist EXCEPT !.epoch = -1]
           ELSE /\ pcClutch' = "l155" /\ T_mz_cu_t' = T
                /\ UNCHANGED <<cycle, g_down, g_hist>>
    /\ UNCHANGED <<clutchVars, T_w_cu_t, T_mzr_mz, T_mc_mcr, T_w_yi, T_yi_yir, T_ycr_yc,
                   T_w_mc, has_zeroed, cb_prop_q, pub, poseLocals, clutch_down,
                   resetLocals, counters, everZeroed, dropped, g_reset>>

(* line 155 *)
Clutch155 ==
    /\ pcClutch = "l155"
    /\ LET T == AsFrames(T_w_mc, _clutch("up"), "world")
       IN  IF IsError(T)
           THEN /\ pcClutch' = "idle" /\ UNCHANGED T_w_cu_t
                /\ g_hist' = [g_hist EXCEPT !.epoch = -1]
           ELSE /\ pcClutch' = "l157" /\ T_w_cu_t' = T /\ UNCHANGED g_hist
    /\ UNCHANGED <<clutchVars, T_mz_cu_t, T_mzr_mz, T_mc_mcr, T_w_yi, T_yi_yir, T_ycr_yc,
                   T_w_mc, has_zeroed, cb_prop_q, pub, poseLocals, clutch_down,
                   resetLocals, counters, everZeroed, dropped, cycle, g_down, g_reset>>

(* line 157 *)
Clutch157 ==
    /\ pcClutch = "l157"
    /\ clutch_state' = clutch_down
    /\ pcClutch' = "idle"
    /\ g_hist' = [g_hist EXCEPT !.epoch = -1]
    /\ cycle' = IF clutch_down
                THEN (IF g_down # NoBaseline THEN "down" ELSE "none")
                ELSE IF cycle # "down" THEN "none"
                ELSE IF SameValue(T_w_cu_t, T_w_cd_t1) THEN "up_still" ELSE "up"
    /\ UNCHANGED <<clutch_i, T_w_cd_t1, baseline, T_w_mc, has_zeroed, cb_prop_q,
                   pub, poseLocals, clutch_down, resetLocals, counters,
                   everZeroed, dropped, g_down, g_reset>>

(* ---- _reset_init_poses ------------------------------------------------- *)
resetRest == <<clutchVars, T_w_mc, has_zeroed, pub, poseLocals, clutchLocals, counters,
               everZeroed, dropped, cycle, g_down>>

(* the three dicts put on cb_prop_q *)
ZeroedRecord_AlwaysTrue(val) == [has_zeroed |-> TRUE]
ZeroedRecord(val) == [has_zeroed |-> val]
BaselineRecord_Swapped ==
    [T_w_cu_t |-> T_w_cu_t, T_mzr_mz |-> T_mzr_mz, T_mc_mcr |-> T_mc_mcr,
     T_w_yi |-> T_w_yi, T_yi_yir |-> T_ycr_yc, T_ycr_yc |-> T_yi_yir]
BaselineRecord ==
    [T_w_cu_t |-> T_w_cu_t, T_mzr_mz |-> T_mzr_mz, T_mc_mcr |-> T_mc_mcr,
     T_w_yi |-> T_w_yi, T_yi_yir |-> T_yi_yir, T_ycr_yc |-> T_ycr_yc]

(* the right-hand sides of lines 88-97 *)
Line88(up) == RigidTransform(I3, Zero3, up, "masters_zero")
Line89(w_mc, up) == AsFrames(w_mc, up, "world")
Line90(w_cu) == RotationOnly(w_cu, "masters_zero", "masters_zero_ref")
Line92_NoInverse(w_cu) ==
    RotationOnly(w_cu, "masters_current_ref", "masters_current")
Line92(w_cu) == RotationOnly(Inverse(w_cu), "masters_current_ref", "masters_current")
Line96(w_yi) == RotationOnly(Inverse(w_yi), "yumi_init_ref", "yumi_init")
Line97(w_yi) == RotationOnly(w_yi, "yumi_current", "yumi_current_ref")

(* the baseline lines 88-97 compute from robot pose Y, master pose M, epoch i *)
ResetBaseline(Y, M, i) ==
    LET up == ClutchFrame("up", i)
        w_cu == Line89(M, up)
    IN  <<Line88(up), w_cu, Line90(w_cu), Line92(w_cu), Y, Line96(Y), Line97(Y)>>

(* lines 168/169 and 82-86 *)
Reset84 ==
    /\ pcReset = "idle" /\ MayStart /\ nReset < ResetBound
    /\ UNCHANGED g_hist
    /\ nReset' = nReset + 1
    /\ \E res \in YumiPoses : yumi_pose' = ros_pose_to_T(res, "yumi_init", "world")
    /\ cb_prop_q' = Append(cb_prop_q, ZeroedRecord(FALSE))
    /\ pcReset' = "l88"
    /\ g_reset' = [g_reset EXCEPT
                     !.Y = yumi_pose',
                     !.run = IF g_reset.run >= 1 /\ ~g_reset.poseSince /\ g_reset.clean
                                /\ g_reset.Y = yumi_pose'
                             THEN g_reset.run + 1 ELSE 1,
                     !.poseSince = FALSE,
                     !.clean = TRUE]
    /\ cycle' = "none" /\ g_down' = NoBaseline
    /\ UNCHANGED <<clutchVars, baseline, T_w_mc, has_zeroed, pub, poseLocals,
                   clutchLocals, nPose, nClutch, sched, everZeroed, dropped>>

(* line 88 *)
Reset88 ==
    /\ pcReset = "l88"
    /\ UNCHANGED g_hist
    /\ T_mz_cu_t' = Line88(_clutch("up"))
    /\ pcReset' = "l89"
    /\ UNCHANGED <<T_w_cu_t, T_mzr_mz, T_mc_mcr, T_w_yi, T_yi_yir, T_ycr_yc,
                   cb_prop_q, yumi_pose, g_reset, resetRest>>

(* line 89; raises when no master pose has been received yet *)
Reset89 ==
    /\ pcReset = "l89"
    /\ LET T == Line89(T_w_mc, _clutch("up"))
       IN  IF IsError(T)
           THEN /\ pcReset' = "idle" /\ yumi_pose' = None /\ UNCHANGED T_w_cu_t
                /\ g_hist' = [g_hist EXCEPT !.resetFailed = TRUE]
           ELSE /\ pcReset' = "l90" /\ T_w_cu_t' = T /\ UNCHANGED <<yumi_pose, g_hist>>
    /\ g_reset' = [g_reset EXCEPT !.M = T_w_mc, !.i = clutch_i]
    /\ UNCHANGED <<T_mz_cu_t, T_mzr_mz, T_mc_mcr, T_w_yi, T_yi_yir, T_ycr_yc,
                   cb_prop_q, resetRest>>

(* lines 90-91 *)
Reset90 ==
    /\ pcReset = "l90"
    /\ UNCHANGED g_hist
    /\ T_mzr_mz' = Line90(T_w_cu_t)
    /\ pcReset' = "l92"
    /\ UNCHANGED <<T_mz_cu_t, T_w_cu_t, T_mc_mcr, T_w_yi, T_yi_yir, T_ycr_yc,
                   cb_prop_q, yumi_pose, g_reset, resetRest>>

(* lines 92-93 *)
Reset92 ==
    /\ pcReset = "l92"
    /\ UNCHANGED g_hist
    /\ T_mc_mcr' = Line92(T_w_cu_t)
    /\ pcReset' = "l95"
    /\ UNCHANGED <<T_mz_cu_t, T_w_cu_t, T_mzr_mz, T_w_yi, T_yi_yir, T_ycr_yc,
                   cb_prop_q, yumi_pose, g_reset, resetRest>>

(* line 95 *)
Reset95 ==
    /\ pcReset = "l95"
    /\ UNCHANGED g_hist
    /\ T_w_yi' = yumi_pose
    /\ pcReset' = "l96"
    /\ UNCHANGED <<T_mz_cu_t, T_w_cu_t, T_mzr_mz, T_mc_mcr, T_yi_yir, T_ycr_yc,
                   cb_prop_q, yumi_pose, g_reset, resetRest>>

(* line 96 *)
Reset96 ==
    /\ pcReset = "l96"
    /\ UNCHANGED g_hist
    /\ T_yi_yir' = Line96(T_w_yi)
    /\ pcReset' = "l97"
    /\ UNCHANGED <<T_mz_cu_t, T_w_cu_t, T_mzr_mz, T_mc_mcr, T_w_yi, T_ycr_yc,
                   cb_prop_q, yumi_pose, g_reset, resetRest>>

(* line 97 *)
Reset97 ==
    /\ pcReset = "l97"
    /\ UNCHANGED g_hist
    /\ T_ycr_yc' = Line97(T_w_yi)
    /\ pcReset' = "l99"
    /\ UNCHANGED <<T_mz_cu_t, T_w_cu_t, T_mzr_mz, T_mc_mcr, T_w_yi, T_yi_yir,
                   cb_prop_q, yumi_pose, g_reset, resetRest>>

(* lines 99-106 *)
Reset99 ==
    /\ pcReset = "l99"
    /\ UNCHANGED g_hist
    /\ cb_prop_q' = Append(cb_prop_q, BaselineRecord)
    /\ pcReset' = "l108"
    /\ UNCHANGED <<baseline, yumi_pose, g_reset, resetRest>>

(* lines 108-112 *)
Reset108 ==
    /\ pcReset = "l108"
    /\ UNCHANGED g_hist
    /\ cb_prop_q' = Append(cb_prop_q, ZeroedRecord(TRUE))
    /\ pcReset' = "idle"
    /\ yumi_pose' = None
    /\ UNCHANGED <<baseline, g_reset, resetRest>>

Next ==
    \/ PoseRecv \/ PoseUpdate \/ PoseGate \/ Pose126 \/ Pose127 \/ Pose131
    \/ ClutchEnter \/ Clutch144 \/ Clutch147 \/ Clutch151 \/ Clutch155 \/ Clutch157
    \/ Reset84 \/ Reset88 \/ Reset89 \/ Reset90 \/ Reset92 \/ Reset95 \/ Reset96
    \/ Reset97 \/ Reset99 \/ Reset108

(* callbacks on concurrent threads *)
Spec == Init /\ [][Next]_vars
(* the same, with one more message delivered *)
RaceSpec == RaceInit /\ [][Next]_vars
(* callbacks delivered one at a time *)
SeqSpec == SeqInit /\ [][Next]_vars

(* Callbacks delivered one at a time, pose messages without end.  A        *)
(* callback that has started runs to its end (its thread is scheduled),    *)
(* and the master keeps publishing pose samples.                           *)
PoseRun == PoseRecv \/ PoseUpdate \/ PoseGate \/ Pose126 \/ Pose127 \/ Pose131
ClutchRun == Clutch144 \/ Clutch147 \/ Clutch151 \/ Clutch155 \/ Clutch157
ResetRun ==
    \/ Reset88 \/ Reset89 \/ Reset90 \/ Reset92 \/ Reset95 \/ Reset96
    \/ Reset97 \/ Reset99 \/ Reset108
LiveSpec ==
    LiveInit /\ [][Next]_vars
    /\ WF_vars(PoseRun) /\ WF_vars(ClutchRun) /\ WF_vars(ResetRun)

(* ======================= properties ==================================== *)
MasterT(p) == ros_pose_to_T(p, "masters_current", "world")
(* the pose callback is at line 131 and the composition there succeeds *)
AboutToPublish ==
    pcPose = "l131" /\ ~IsError(Compose131(T_w_yi, T_yi_yir, T_yir_ycr, T_ycr_yc))

(* C1  Pre-zero silence: as long as has_zeroed has never become True, no   *)
(* pose has been published and no pose callback has got past the gate of   *)
(* lines 121-122, whatever clutch events and pose samples have arrived.    *)
C1_PreZeroSilence ==
    ~everZeroed => (pub = None /\ pcPose \in {"idle", "l120"})

(* a reset has been invoked, samples and a clutch event were delivered, and *)
(* the relay is still silent because has_zeroed has not become True         *)
C1_Witness ==
    /\ ~everZeroed /\ nReset >= 1 /\ nPose >= 2 /\ nClutch >= 1
    /\ pcPose = "idle" /\ pub = None

(* C10  A clutch press or release received while has_zeroed is False ends  *)
(* the callback at once and leaves clutch_state, the epoch, the clutch-down *)
(* snapshot and every baseline transform as they were.                     *)
C10_ClutchIgnoredBeforeZero ==
    [][(pcClutch = "idle" /\ nClutch' = nClutch + 1 /\ ~has_zeroed)
        => (pcClutch' = "idle" /\ UNCHANGED <<clutchVars, baseline>>)]_vars

(* a press was delivered to a relay that has a baseline in place (a reset   *)
(* ran) but has_zeroed still False, and nothing of it was kept              *)
C10_Witness ==
    /\ nClutch >= 1 /\ clutch_down /\ pcClutch = "idle"
    /\ ~everZeroed /\ T_w_cu_t # None
    /\ clutch_i = 0 /\ ~clutch_state /\ T_w_cd_t1 = None

(* C9  No emission while clutched: from the statement that sets            *)
(* clutch_state True (line 157 of a press) until a release sets it False,  *)
(* no pose is published.                                                   *)
C9_NoEmissionWhileClutched ==
    [][~(clutch_state /\ AboutToPublish /\ pcPose' = "idle")]_vars

(* a reset invocation has started and its {'has_zeroed': True} is not yet  *)
(* applied: it is still running, or that record is still queued            *)
ResetInWindow ==
    \/ pcReset # "idle"
    \/ \E k \in 1..Len(cb_prop_q) : cb_prop_q[k] = ZeroedRecord(TRUE)

(* C3  Reset atomicity: from the start of a reset invocation until its     *)
(* has_zeroed = True is committed, no pose is published, and a pose        *)
(* callback that has run its update step in that window has has_zeroed     *)
(* False; also for a later reset and for two resets back to back.          *)
C3_ResetAtomicity ==
    [][/\ ResetInWindow => ~(AboutToPublish /\ pcPose' = "idle")
       /\ (pcPose = "l120" /\ pcPose' # "l120" /\ ResetInWindow') => ~has_zeroed']_vars

(* the pose callback applies the {'has_zeroed': True} of the latest reset  *)
(* invocation: that reset takes effect                                     *)
TakesEffect ==
    /\ pcPose = "l120" /\ pcPose' # "l120"
    /\ QueueHead = ZeroedRecord(TRUE)
    /\ Len(cb_prop_q) = 1 /\ pcReset = "idle"

(* C6  Reset supersedes history: when a reset takes effect the seven       *)
(* baseline transforms are exactly those lines 88-97 derive from that      *)
(* reset's robot pose and the master pose and epoch it read, whatever      *)
(* resets, clutch cycles or clutch state came before.                      *)
C6_ResetSupersedes ==
    [][TakesEffect => baseline' = ResetBaseline(g_reset.Y, g_reset.M, g_reset.i)]_vars

(* C7  Frame mismatch isolation and recovery: the step in which a pose     *)
(* callback raises on mismatched frame names changes neither the baseline  *)
(* nor the clutch state, and the next sample that gets past both gates     *)
(* (zeroed, not clutched) composes without raising.                        *)
C7_MismatchRecovery ==
    [][/\ (~dropped /\ dropped') => UNCHANGED <<baseline, clutchVars>>
       /\ (dropped /\ pcPose = "l126" /\ pcPose' # "l126") => pcPose' = "l127"]_vars

(* C2  Clutch absorption: after a press and the release that follows it on *)
(* a zeroed relay, feeding again the master pose the release captured (Pb) *)
(* publishes exactly the pose that was published last: the motion made     *)
(* while clutched does not show, however the callbacks interleave.         *)
C2_ClutchAbsorption ==
    [][(cycle = "fed" /\ AboutToPublish /\ pcPose' = "idle") => pub' = pub]_vars

(* every callback has returned, nothing is queued, the relay is zeroed *)
Settled == AllIdle /\ cb_prop_q = <<>> /\ has_zeroed

(* C4  Clutch transparency: after a press immediately followed by a        *)
(* release, with the master pose at the release the one snapshotted at the *)
(* press, every master pose is forwarded to the same robot pose as with    *)
(* the baseline the relay had before the press.                            *)
C4_ClutchTransparency ==
    cycle = "up_still" =>
        \A p \in MasterPoses :
            /\ ~IsError(Forward(baseline, MasterT(p)))
            /\ Forward(baseline, MasterT(p)) = Forward(g_down, MasterT(p))

(* the pair was inserted after the master had moved away from the pose of  *)
(* the last clutch-up, so the release folded a non-trivial motion          *)
C4_Witness ==
    /\ cycle = "up_still" /\ AllIdle
    /\ ~SameValue(g_down[2], T_w_cu_t)
    /\ T_mz_cu_t # g_down[1]

(* C5  Idempotent re-zero: once resets called in a row with the same robot *)
(* pose and the same last-known master pose have taken effect, every       *)
(* master pose is forwarded to the robot pose that the baseline of one     *)
(* such reset gives, whether one reset ran or several.                     *)
C5_IdempotentRezero ==
    (g_reset.run >= 1 /\ g_reset.clean /\ Settled) =>
        \A p \in MasterPoses :
            /\ ~IsError(Forward(baseline, MasterT(p)))
            /\ Forward(baseline, MasterT(p))
                 = Forward(ResetBaseline(g_reset.Y, g_reset.M, g_reset.i), MasterT(p))

(* two resets in a row, with a rotated robot pose, have taken effect and a  *)
(* master pose other than the one they read has been published since       *)
C5_Witness ==
    /\ g_reset.run >= 2 /\ g_reset.clean /\ Settled
    /\ ~clutch_state /\ pub # None
    /\ g_reset.Y.rotation # I3
    /\ ~SameValue(T_w_mc, g_reset.M)

(* C8  Initial alignment: after a reset with robot pose Y, taken while the *)
(* last-known master pose is M0, has taken effect and no clutch event has  *)
(* been processed since, the pose published for master pose M0 is Y.       *)
C8_InitialAlignment ==
    (/\ Settled /\ g_reset.clean /\ g_reset.poseSince /\ ~clutch_state
     /\ SameValue(T_w_mc, g_reset.M))
        => pub = T_to_ros_pose(g_reset.Y)

(* a second reset, with a rotated robot pose and a master pose other than  *)
(* the first reset's, has taken effect and its M0 has been fed and         *)
(* published                                                               *)
C8_Witness ==
    /\ Settled /\ g_reset.clean /\ g_reset.poseSince /\ ~clutch_state
    /\ SameValue(T_w_mc, g_reset.M)
    /\ nReset = 2 /\ g_reset.Y.rotation # I3
    /\ pub = T_to_ros_pose(g_reset.Y)

(* C11  Single writer: has_zeroed, clutch_state and the seven baseline     *)
(* transforms change only in the step of the pose callback that applies a  *)
(* queued record (lines 120, 74-79); no step of the reset handler or of    *)
(* the clutch callback changes them.                                       *)
C11_SingleWriter ==
    [][(has_zeroed' # has_zeroed \/ clutch_state' # clutch_state \/ baseline' # baseline)
        => (pcPose = "l120" /\ pcPose' # "l120")]_vars

(* C12  Full drain: when a reset has completed and its records are        *)
(* pending, the update step of the next pose callback applies all of them: *)
(* it leaves cb_prop_q empty and has_zeroed True, so the reset takes       *)
(* effect on the first sample received after it.                           *)
C12_FullDrain ==
    [][(/\ pcPose = "l120" /\ pcPose' # "l120"
        /\ pcReset = "idle" /\ Len(cb_prop_q) > 0
        /\ cb_prop_q[Len(cb_prop_q)] = ZeroedRecord(TRUE))
        => (cb_prop_q' = <<>> /\ has_zeroed')]_vars

(* C13  Epoch uniqueness: _clutch_i never decreases; it changes only in a  *)
(* processed press, which ends with it exactly one above its value when    *)
(* the press was received; and the <<clutch-down, clutch-up>> frame names  *)
(* a processed press uses were used by no earlier press.                   *)
C13_EpochUniqueness ==
    [][/\ clutch_i' >= clutch_i
       /\ clutch_i' # clutch_i => (pcClutch # "idle" /\ clutch_down)
       /\ (pcClutch = "l157" /\ clutch_down /\ pcClutch' = "idle")
             => clutch_i' = g_hist.epoch + 1
       /\ (pcClutch = "l147" /\ pcClutch' = "l157")
             => <<T_w_cd_t1'.from_frame, ClutchFrame("up", clutch_i')>> \notin g_hist.labels]_vars

(* two presses have been processed on a zeroed relay *)
C13_Witness ==
    Cardinality(g_hist.labels) >= 2 /\ clutch_i = 2 /\ pcClutch = "idle"

(* C14  Clutch-up fold: in a release processed while clutch_state is True, *)
(* lines 151-152 set T_mz_cu_t to old T_mz_cu_t * inverse(old T_w_cu_t) *  *)
(* T_w_cd_t1 with from_frame the clutch-up name of the current epoch, and  *)
(* line 155 sets T_w_cu_t to the latest master pose under that same name.  *)
C14_ClutchUpFold ==
    [][/\ (clutch_state /\ pcClutch = "l151" /\ pcClutch' = "l155")
             => T_mz_cu_t' = AsFrames(Mul(Mul(T_mz_cu_t, Inverse(T_w_cu_t)), T_w_cd_t1),
                                      ClutchFrame("up", clutch_i), "masters_zero")
       /\ (clutch_state /\ pcClutch = "l155" /\ pcClutch' # "l155")
             => /\ pcClutch' = "l157"
                /\ SameValue(T_w_cu_t', MasterT(g_hist.sample))
                /\ T_w_cu_t'.from_frame = ClutchFrame("up", clutch_i)
                /\ T_w_cu_t'.from_frame = T_mz_cu_t'.from_frame
                /\ T_w_cu_t'.to_frame = "world"]_vars

(* a release is about to disengage the clutch, the master moved while it   *)
(* was engaged, and the fold changed T_mz_cu_t to a non-identity value     *)
C14_Witness ==
    /\ pcClutch = "l157" /\ ~clutch_down /\ clutch_state
    /\ ~SameValue(T_w_cu_t, T_w_cd_t1)
    /\ IsT(T_mz_cu_t) /\ T_mz_cu_t.rotation # I3
    /\ T_mz_cu_t.from_frame = ClutchFrame("up", clutch_i)

(* C15  (as claimed) A processed release increments the epoch: it ends     *)
(* with _clutch_i one above its value when the release was received.       *)
C15_ReleaseIncrementsEpoch ==
    [][(pcClutch = "l157" /\ ~clutch_down /\ pcClutch' = "idle")
        => clutch_i' = g_hist.epoch + 1]_vars

(* C15  (amended) A processed release folds the clutch-interval motion     *)
(* into the baseline and leaves _clutch_i as it was when the release was   *)
(* received; only a press increments it.                                   *)
C15_ReleaseKeepsEpoch ==
    [][/\ (pcClutch # "idle" /\ ~clutch_down) => clutch_i' = clutch_i
       /\ (pcClutch = "l157" /\ ~clutch_down /\ pcClutch' = "idle")
             => clutch_i' = g_hist.epoch]_vars

(* a release that follows a processed press has folded and is about to     *)
(* disengage the clutch, the epoch still the one the press set             *)
C15_Witness ==
    /\ pcClutch = "l157" /\ ~clutch_down /\ clutch_state
    /\ g_hist.epoch = 1 /\ clutch_i = 1
    /\ T_w_cu_t.from_frame = ClutchFrame("up", 1)

(* C16  Snapshots use the latest sample: a delivered pose message is       *)
(* stored in T_w_mc by the first step of the callback, whatever has_zeroed *)
(* and clutch_state are, and line 89 of a reset and line 147 of a press    *)
(* capture the value of the last message delivered.                        *)
C16_SnapshotsUseLatest ==
    [][/\ (pcPose = "idle" /\ pcPose' = "l120")
             => T_w_mc' = MasterT(g_hist'.sample)
       /\ (pcReset = "l89" /\ pcReset' = "l90")
             => SameValue(T_w_cu_t', MasterT(g_hist.sample))
       /\ (pcClutch = "l147" /\ pcClutch' = "l157")
             => SameValue(T_w_cd_t1', MasterT(g_hist.sample))]_vars

(* a press has snapshotted a sample that arrived while the clutch was      *)
(* already engaged and that differs from the pose of the last clutch-up    *)
C16_Witness ==
    /\ pcClutch = "l157" /\ clutch_down /\ clutch_state
    /\ SameValue(T_w_cd_t1, MasterT(g_hist.sample))
    /\ ~SameValue(T_w_cd_t1, T_w_cu_t)
    /\ T_w_cd_t1.from_frame = ClutchFrame("down", 2)

(* C18  Redundant clutch events are no-ops: no step of a clutch callback   *)
(* whose value equals clutch_state (a release while disengaged, a press    *)
(* while engaged) changes _clutch_i, T_w_cd_t1, T_mz_cu_t or T_w_cu_t.     *)
C18_RedundantClutchNoOp ==
    [][(pcClutch # "idle" /\ clutch_down = clutch_state /\ pcClutch' # pcClutch)
        => UNCHANGED <<clutch_i, T_w_cd_t1, T_mz_cu_t, T_w_cu_t>>]_vars

(* C19  Label consistency: whenever has_zeroed is True and the clutch is   *)
(* disengaged, T_mz_cu_t and T_w_cu_t are set and carry the same clutch-up *)
(* frame name, so line 126 composes without a frame mismatch.              *)
C19_LabelConsistency ==
    (has_zeroed /\ ~clutch_state) =>
        /\ IsT(T_mz_cu_t) /\ IsT(T_w_cu_t)
        /\ T_mz_cu_t.from_frame = T_w_cu_t.from_frame
        /\ \A p \in MasterPoses : ~IsError(Compose126(T_mz_cu_t, T_w_cu_t, MasterT(p)))

(* C20  Zeroed implies initialised: whenever has_zeroed is True, the seven *)
(* baseline transforms are all set, also after a reset that was invoked    *)
(* before any master pose had been received.                               *)
C20_ZeroedImpliesInitialised ==
    has_zeroed => \A k \in 1..7 : IsT(baseline[k])

(* a reset invoked before the first master pose raised at line 89, a later *)
(* reset succeeded, and the relay is zeroed and has published              *)
C20_Witness ==
    /\ g_hist.resetFailed /\ has_zeroed /\ pub # None
    /\ \A k \in 1..7 : IsT(baseline[k])

(* C17  Reset eventually enables forwarding: a reset that got past line 89 *)
(* (a master pose had been received) leads, with pose samples arriving     *)
(* without end, to has_zeroed True with nothing of a reset pending, and a  *)
(* sample that then gets past both gates (zeroed, clutch disengaged) leads *)
(* to a pose being published unless the clutch is engaged first.           *)
C17_ResetEventuallyEnables ==
    /\ (pcReset = "l90") ~> (has_zeroed /\ NoResetPending)
    /\ (pcPose = "l126") ~> (AboutToPublish \/ clutch_state)
====
